---- MODULE Spec2Model ----
(***************************************************************************)
(* Model of the history page of the energy-reporting dashboard:            *)
(*   requests.ts  (src/unnamed/part_002)  ValidateResponse, ProcessBids,   *)
(*                                        ProcessEnergy, ProcessDates      *)
(*   index.ts     (src/unnamed/part_003)  pageLoad, ChangeDate, download,  *)
(*                                        markLoading, markLoaded          *)
(*                                                                         *)
(* JavaScript values are tagged records, so that typeof, Array.isArray,    *)
(* null, undefined and NaN are told apart as the code tells them apart.    *)
(***************************************************************************)
EXTENDS Integers, Sequences, FiniteSets, TLC

VARIABLES
    \* ---- index.ts: page variables and cached data
    PageDate,       \* string, undefined before pageLoad
    Today,          \* string, undefined before pageLoad
    PageType,       \* DateType, undefined before pageLoad
    HasBidData,     \* boolean, undefined until a bid pipeline sets it
    HasEnergyData,  \* boolean, undefined until an energy pipeline sets it
    flagLoading,    \* number, undefined until the first accepted ChangeDate
    Dates,          \* ReportMonths, undefined until the dates response is processed
    Energy,         \* EnergyData, undefined until an energy response is processed
    Bids,           \* BidData, undefined until a bid response is processed
    \* ---- the page around them
    phase,          \* "start" before window.onload, "running" after
    location,       \* the query string of window.location.href, undefined if none
    urlDate,        \* pageLoad's local urlDate, captured by its callbacks
    skeleton,       \* the SkeletonState each SkeletonType shows
    overlay,        \* overlayLoading carries the class "overlay"
    buttonLoading,  \* ButtonDownload carries the attribute "loading"
    datesReq,       \* where the RequestDates() promise chain stands
    calls,          \* one entry per accepted ChangeDate: its date and where its
                    \* RequestEnergy and RequestBids promise chains stand
    last,           \* the handler that ran last and what it did
    settled,        \* how the energy and the bid fetch that settled last ended
    \* ---- requests.ts applied as pure functions
    callFn,         \* the function of requests.ts applied in this behaviour
    callType,       \* its APIResponse argument ("bids" | "energy" | "dates")
    callArg,        \* its payload argument
    callRet         \* its result, NotCalled before the call

pageVars == <<PageDate, Today, PageType, HasBidData, HasEnergyData, flagLoading,
              Dates, Energy, Bids>>
domVars == <<phase, location, urlDate, skeleton, overlay, buttonLoading>>
navVars == <<pageVars, domVars, datesReq, calls, last, settled>>
pureVars == <<callFn, callType, callArg, callRet>>
vars == <<navVars, pureVars>>

(***************************************************************************)
(* Bounds                                                                  *)
(***************************************************************************)
\* longest array (rows of a payload, members of a row) the payload sets hold
MaxLen == 2
\* largest volume and price of a bid row
MaxVal == 2
\* accepted ChangeDate calls in one behaviour
MaxCalls == 2

(***************************************************************************)
(* JavaScript values                                                       *)
(***************************************************************************)
Undefined == [t |-> "undefined"]
Null == [t |-> "null"]
NaN == [t |-> "nan"]
Num(n) == [t |-> "number", v |-> n]
Str(s) == [t |-> "string", v |-> s]
Bool(b) == [t |-> "boolean", v |-> b]
Arr(s) == [t |-> "array", v |-> s]
\* an object is the sequence of its own properties, in key iteration order
Obj(props) == [t |-> "object", v |-> props]
Prop(key, val) == [k |-> key, v |-> val]

\* typeof x
TypeOf(x) ==
    CASE x.t = "undefined" -> "undefined"
      [] x.t = "null" -> "object"
      [] x.t = "nan" -> "number"
      [] x.t = "number" -> "number"
      [] x.t = "string" -> "string"
      [] x.t = "boolean" -> "boolean"
      [] x.t = "array" -> "object"
      [] x.t = "object" -> "object"

\* Array.isArray(x)
IsArray(x) == x.t = "array"

\* x == null (loose): null or undefined
LooseNull(x) == x.t = "null" \/ x.t = "undefined"

\* obj[key] for a string key that is not an array index
Get(obj, key) ==
    IF obj.t = "object" /\ \E i \in DOMAIN obj.v : obj.v[i].k = key
    THEN obj.v[CHOOSE i \in DOMAIN obj.v : obj.v[i].k = key].v
    ELSE Undefined

\* the values a for-in loop guarded by hasOwnProperty visits, in order
OwnValues(obj) ==
    CASE obj.t = "object" -> [i \in DOMAIN obj.v |-> obj.v[i].v]
      [] obj.t = "array" -> obj.v
      [] OTHER -> <<>>

\* element[i] of a JavaScript array, 0-based; undefined past the end
At(arr, i) == IF i + 1 \in DOMAIN arr.v THEN arr.v[i + 1] ELSE Undefined

\* ToNumber(x), for the primitives the payload sets hold. The strings of the
\* payload sets are dates, timestamps and type tags, none of them numeric.
ToNumber(x) ==
    CASE x.t = "number" -> x
      [] x.t = "nan" -> NaN
      [] x.t = "null" -> Num(0)
      [] x.t = "undefined" -> NaN
      [] x.t = "boolean" -> IF x.v THEN Num(1) ELSE Num(0)
      [] x.t = "string" -> NaN

\* a + b where neither operand is a string, an array or an object
JsAdd(a, b) ==
    LET x == ToNumber(a)
        y == ToNumber(b)
    IN  CASE a.t # "string" /\ b.t # "string" ->
             IF x = NaN \/ y = NaN THEN NaN ELSE Num(x.v + y.v)

\* a - b
JsSub(a, b) ==
    LET x == ToNumber(a)
        y == ToNumber(b)
    IN  IF x = NaN \/ y = NaN THEN NaN ELSE Num(x.v - y.v)

\* a * b
JsMul(a, b) ==
    LET x == ToNumber(a)
        y == ToNumber(b)
    IN  IF x = NaN \/ y = NaN THEN NaN ELSE Num(x.v * y.v)

\* s.slice(from, to) of a string, 0 <= from <= to
Slice(s, from, to) ==
    LET end == IF to < Len(s) THEN to ELSE Len(s)
    IN  IF from >= end THEN "" ELSE SubSeq(s, from + 1, end)

(***************************************************************************)
(* JavaScript strings. The strings of the model are built from digits,     *)
(* "-", "=", ":", "+", " " and letters.                                    *)
(***************************************************************************)
Digits == "0123456789"

CharAt(s, i) == SubSeq(s, i, i)

IsDigit(c) == \E d \in 1..10 : CharAt(Digits, d) = c

DigitVal(c) == (CHOOSE d \in 1..10 : CharAt(Digits, d) = c) - 1

IsDigits(s) == \A i \in 1..Len(s) : IsDigit(CharAt(s, i))

RECURSIVE DigitsVal(_)
\* the number a string of digits writes
DigitsVal(s) ==
    IF s = "" THEN 0
    ELSE 10 * DigitsVal(SubSeq(s, 1, Len(s) - 1)) + DigitVal(CharAt(s, Len(s)))

\* +s (unary plus) of a string without spaces: its number, 0 for "", else NaN
StrToNumber(s) == IF IsDigits(s) THEN Num(DigitsVal(s)) ELSE NaN

RECURSIVE LeadingDigits(_)
LeadingDigits(s) ==
    IF s = "" \/ ~IsDigit(CharAt(s, 1)) THEN ""
    ELSE CharAt(s, 1) \o LeadingDigits(SubSeq(s, 2, Len(s)))

\* Number.parseInt(s) of a string without spaces or sign
ParseInt(s) == IF LeadingDigits(s) = "" THEN NaN ELSE Num(DigitsVal(LeadingDigits(s)))

RECURSIVE NatToString(_)
\* n.toString() of an integer n >= 0
NatToString(n) ==
    IF n < 10 THEN CharAt(Digits, n + 1)
    ELSE NatToString(n \div 10) \o CharAt(Digits, (n % 10) + 1)

\* s.padStart(2, "0")
PadStart2(s) == IF Len(s) < 2 THEN (IF Len(s) = 0 THEN "00" ELSE "0" \o s) ELSE s

RECURSIVE IndexFrom(_, _, _)
\* the first position >= from at which sep occurs in s, 0 if none
IndexFrom(s, sep, from) ==
    IF from + Len(sep) - 1 > Len(s) THEN 0
    ELSE IF SubSeq(s, from, from + Len(sep) - 1) = sep THEN from
    ELSE IndexFrom(s, sep, from + 1)

RECURSIVE Split(_, _)
\* s.split(sep) for a non-empty separator
Split(s, sep) ==
    LET at == IndexFrom(s, sep, 1)
    IN  IF at = 0 THEN <<s>>
        ELSE <<SubSeq(s, 1, at - 1)>> \o Split(SubSeq(s, at + Len(sep), Len(s)), sep)

(***************************************************************************)
(* ValidateResponse (requests.ts)                                          *)
(***************************************************************************)
APIResponse == {"bids", "energy", "dates"}

\* The callback handed to obj["data"].forEach in the "bids" case: what its
\* `return false` statements return to forEach.
BidsRowCallback(element) ==
    IF ~IsArray(element) THEN "false"
    ELSE "undefined"    \* the inner forEach's callback returns to the inner forEach

\* case "bids"
ValidateBids(obj) ==
    LET data == Get(obj, "data")
        \* Array.prototype.forEach calls the callback on every element and
        \* drops what it returns
        dropped == [i \in DOMAIN data.v |-> BidsRowCallback(data.v[i])]
    IN  IF data = Undefined THEN FALSE
        ELSE IF ~IsArray(data) THEN FALSE
        ELSE TRUE

\* a "dates" case that looks at no value
ValidateDatesNoValueCheck(obj) == TRUE

\* case "dates"
ValidateDates(obj) ==
    LET values == OwnValues(obj)
    IN  IF \E i \in DOMAIN values : ~IsArray(values[i]) THEN FALSE
        ELSE TRUE

\* The callback handed to obj["data"].forEach in the "energy" case.
EnergyRowCallback(element) ==
    IF ~IsArray(element) THEN "false"
    ELSE IF \E i \in DOMAIN element.v :
               \/ i = 1 /\ TypeOf(element.v[i]) # "string" /\ ~LooseNull(element.v[i])
               \/ i > 1 /\ TypeOf(element.v[i]) # "number" /\ element.v[i] # Null
         THEN "false"
         ELSE "undefined"

\* case "energy"
ValidateEnergy(obj) ==
    LET carbonRate == Get(obj, "carbonRate")
        data == Get(obj, "data")
        rates == OwnValues(carbonRate)
        dropped == [i \in DOMAIN data.v |-> EnergyRowCallback(data.v[i])]
    IN  IF carbonRate = Undefined THEN FALSE
        ELSE IF TypeOf(carbonRate) # "object" \/ carbonRate = Null THEN FALSE
        ELSE IF data = Undefined THEN FALSE
        ELSE IF \E i \in DOMAIN rates :
                    TypeOf(rates[i]) # "number" \/ LooseNull(rates[i]) THEN FALSE
        ELSE IF ~IsArray(data) THEN FALSE
        ELSE TRUE

ValidateResponse(obj, type) ==
    IF TypeOf(obj) # "object" THEN FALSE
    ELSE IF LooseNull(obj) THEN FALSE
    ELSE CASE type = "bids" -> ValidateBids(obj)
           [] type = "dates" -> ValidateDates(obj)
           [] type = "energy" -> ValidateEnergy(obj)
           [] OTHER -> FALSE

(***************************************************************************)
(* ProcessBids (requests.ts)                                               *)
(***************************************************************************)
BidTypeSell == Str("SELL")
BidTypeBuy == Str("BUY")

\* a sign that tests for BidType.Buy instead of BidType.Sell
BidSignBuyOnly(type) == IF type = BidTypeBuy THEN Num(-1) ELSE Num(1)

\* (type == BidType.Sell ? 1 : -1)
BidSign(type) == IF type = BidTypeSell THEN Num(1) ELSE Num(-1)

\* the object pushed onto bids for one row
BidOf(element) ==
    [ date |-> At(element, 0),
      hour |-> At(element, 1),
      type |-> At(element, 2),
      volume |-> At(element, 3),
      price |-> At(element, 4) ]

\* one call of the forEach callback: the accumulators after the row
BidStep(acc, element) ==
    LET bid == BidOf(element)
    IN  [ bids |-> Append(acc.bids, bid),
          profit |-> JsAdd(acc.profit, JsMul(JsMul(bid.volume, bid.price), BidSign(bid.type))),
          totalVolume |-> JsAdd(acc.totalVolume, bid.volume),
          volumeSold |-> JsAdd(acc.volumeSold,
                               JsMul(bid.volume, IF bid.type = BidTypeSell THEN Num(1) ELSE Num(0))),
          volumeBrought |-> JsAdd(acc.volumeBrought,
                                  JsMul(bid.volume, IF bid.type = BidTypeBuy THEN Num(1) ELSE Num(0))) ]

RECURSIVE BidLoop(_, _, _)
\* data.data.forEach(...) from row i on
BidLoop(rows, i, acc) ==
    IF i > Len(rows) THEN acc ELSE BidLoop(rows, i + 1, BidStep(acc, rows[i]))

ProcessBids(data) ==
    BidLoop(Get(data, "data").v, 1,
            [ bids |-> <<>>, profit |-> Num(0), totalVolume |-> Num(0),
              volumeSold |-> Num(0), volumeBrought |-> Num(0) ])

(***************************************************************************)
(* ProcessEnergy (requests.ts)                                             *)
(***************************************************************************)
\* carbonRate of a row: data.carbonRate[element[0].slice(0, 10)], or 0
RowCarbonRate(carbonRate, element) ==
    IF TypeOf(At(element, 0)) = "string"
    THEN Get(carbonRate, Slice(At(element, 0).v, 0, 10))
    ELSE Num(0)

\* a total that adds the demand column instead of the wind column
PredictedTotalOfDemand(element) == JsAdd(At(element, 2), At(element, 1))

\* (element[2] as number) + (element[3] as number)
PredictedTotalOf(element) == JsAdd(At(element, 2), At(element, 3))

\* element[2] + element[3] - element[1]
PredictedNetOf(element) == JsSub(JsAdd(At(element, 2), At(element, 3)), At(element, 1))

\* what is pushed onto realTotalGeneration
RealTotalOf(element) ==
    IF LooseNull(At(element, 5)) \/ LooseNull(At(element, 6))
    THEN Null
    ELSE JsAdd(At(element, 5), At(element, 6))

\* a net that does not look at the demand before subtracting it
RealNetOfLenient(element) ==
    IF LooseNull(At(element, 5)) \/ LooseNull(At(element, 6))
    THEN Null
    ELSE JsSub(JsAdd(At(element, 5), At(element, 6)), At(element, 4))

\* what is pushed onto realNetPower
RealNetOf(element) ==
    IF LooseNull(At(element, 5)) \/ LooseNull(At(element, 6))
    THEN Null
    ELSE IF At(element, 4) # Null
         THEN JsSub(JsAdd(At(element, 5), At(element, 6)), At(element, 4))
         ELSE Null

\* one call of the forEach callback: the arrays and accumulators after the row
EnergyStep(acc, carbonRate, element) ==
    LET rate == RowCarbonRate(carbonRate, element)
        predictedNet == PredictedNetOf(element)
        net == RealNetOf(element)
    IN  [ times |-> Append(acc.times, At(element, 0)),
          carbonRate |-> carbonRate,
          predictedBuildingDemand |-> Append(acc.predictedBuildingDemand, At(element, 1)),
          predictedSolarGeneration |-> Append(acc.predictedSolarGeneration, At(element, 2)),
          predictedWindGeneration |-> Append(acc.predictedWindGeneration, At(element, 3)),
          predictedTotalGeneration |-> Append(acc.predictedTotalGeneration, PredictedTotalOf(element)),
          predictedNetGeneration |-> Append(acc.predictedNetGeneration, predictedNet),
          predictedCarbonSaved |-> JsAdd(acc.predictedCarbonSaved, JsMul(predictedNet, rate)),
          realBuildingDemand |-> Append(acc.realBuildingDemand, At(element, 4)),
          realSolarGeneration |-> Append(acc.realSolarGeneration, At(element, 5)),
          realWindGeneration |-> Append(acc.realWindGeneration, At(element, 6)),
          realTotalGeneration |-> Append(acc.realTotalGeneration, RealTotalOf(element)),
          realNetGeneration |-> Append(acc.realNetGeneration, net),
          realCarbonSaved |-> IF net = Null THEN acc.realCarbonSaved
                              ELSE JsAdd(acc.realCarbonSaved, JsMul(net, rate)) ]

RECURSIVE EnergyLoop(_, _, _, _)
\* data.data.forEach(...) from row i on
EnergyLoop(rows, carbonRate, i, acc) ==
    IF i > Len(rows) THEN acc
    ELSE EnergyLoop(rows, carbonRate, i + 1, EnergyStep(acc, carbonRate, rows[i]))

ProcessEnergy(data) ==
    EnergyLoop(Get(data, "data").v, Get(data, "carbonRate"), 1,
               [ times |-> <<>>,
                 carbonRate |-> Get(data, "carbonRate"),
                 predictedBuildingDemand |-> <<>>,
                 predictedSolarGeneration |-> <<>>,
                 predictedWindGeneration |-> <<>>,
                 predictedTotalGeneration |-> <<>>,
                 predictedNetGeneration |-> <<>>,
                 predictedCarbonSaved |-> Num(0),
                 realBuildingDemand |-> <<>>,
                 realSolarGeneration |-> <<>>,
                 realWindGeneration |-> <<>>,
                 realTotalGeneration |-> <<>>,
                 realNetGeneration |-> <<>>,
                 realCarbonSaved |-> Num(0) ])

(***************************************************************************)
(* ProcessDates (requests.ts), MonthNames (utils.ts)                       *)
(***************************************************************************)
MonthNames ==
    << "January", "February", "March", "April", "May", "June", "July",
       "August", "September", "October", "November", "December" >>

\* MonthNames[month - 1]
MonthName(month) ==
    IF month.t = "number" /\ month.v \in 1..12 THEN Str(MonthNames[month.v]) ELSE Undefined

\* a ReportDay whose date carries the day as written, without padding
ReportDayOfUnpadded(yearMonth, day) ==
    [ date |-> yearMonth \o "-" \o NatToString(day.v),
      day |-> ParseInt(NatToString(day.v)) ]

\* the ReportDay pushed for one day number of a month
ReportDayOf(yearMonth, day) ==
    [ date |-> yearMonth \o "-" \o PadStart2(NatToString(day.v)),
      day |-> ParseInt(NatToString(day.v)) ]

\* the ReportMonth pushed for one key of the mapping
ReportMonthOf(yearMonth, monthDays) ==
    LET parts == Split(yearMonth, "-")
        month == IF Len(parts) >= 2 THEN ParseInt(parts[2]) ELSE NaN
        year == ParseInt(parts[1])
    IN  [ date |-> yearMonth,
          days |-> [j \in DOMAIN monthDays.v |-> ReportDayOf(yearMonth, monthDays.v[j])],
          month |-> month,
          name |-> MonthName(month),
          year |-> year ]

\* months in the mapping's key iteration order; days are numbers
ProcessDates(data) ==
    [i \in DOMAIN data.v |-> ReportMonthOf(data.v[i].k, data.v[i].v)]

(***************************************************************************)
(* index.ts: ValidateDate                                                  *)
(***************************************************************************)
\* a > b for numbers: false when either is NaN
JsGreater(a, b) == a.t = "number" /\ b.t = "number" /\ a.v > b.v

ValidateDate(date) ==
    LET split == Split(date, "-")
    IN  IF Len(date) < 6 THEN FALSE
        ELSE IF Len(date) > 10 THEN FALSE
        ELSE IF ~(Len(split) = 2 \/ Len(split) = 3) THEN FALSE
        ELSE IF Len(split[1]) # 4 THEN FALSE
        ELSE IF Len(split[2]) > 2 \/ Len(split[2]) = 0 THEN FALSE
        ELSE IF Len(split) = 3 /\ (Len(split[3]) > 2 \/ Len(split[3]) = 0) THEN FALSE
        ELSE IF JsGreater(StrToNumber(split[2]), Num(12)) THEN FALSE
        ELSE IF Len(split) = 3 /\ JsGreater(StrToNumber(split[3]), Num(31)) THEN FALSE
        ELSE TRUE

(***************************************************************************)
(* index.ts: the date resolution loop of pageLoad's dates callback         *)
(***************************************************************************)
DateTypeDay == Str("day")
DateTypeMonth == Str("month")

\* a scan that keeps the first day as latest unless a day matches exactly
ScanDaysKeepFirst(days, j, latest, pageDate) ==
    IF \E k \in j..Len(days) : days[k].date = pageDate
    THEN [latest |-> days[CHOOSE k \in j..Len(days) : days[k].date = pageDate],
          foundExact |-> TRUE]
    ELSE [latest |-> IF latest # Null \/ j > Len(days) THEN latest ELSE days[j],
          foundExact |-> FALSE]

\* a scan that stops at an exact match only when no higher day came before it
ScanDaysExactIfHighest(days, j, latest, pageDate) ==
    LET exact == {k \in j..Len(days) : days[k].date = pageDate
                     /\ \A m \in j..k : days[m].day.v <= days[k].day.v}
        top == {k \in j..Len(days) : \A m \in j..Len(days) : days[m].day.v <= days[k].day.v}
    IN  IF exact # {}
        THEN [latest |-> days[CHOOSE k \in exact : \A m \in exact : k <= m],
              foundExact |-> TRUE]
        ELSE [latest |-> IF top = {} THEN latest
                         ELSE days[CHOOSE k \in top : \A m \in top : k <= m],
              foundExact |-> FALSE]

RECURSIVE ScanDays(_, _, _, _)
\* for (let j = 0; j < month.days.length; j++) from day j on
ScanDays(days, j, latest, pageDate) ==
    IF j > Len(days) THEN [latest |-> latest, foundExact |-> FALSE]
    ELSE LET day == days[j]
             first == IF latest = Null THEN day ELSE latest
         IN  IF day.date = pageDate THEN [latest |-> day, foundExact |-> TRUE]
             ELSE IF JsGreater(day.day, first.day)
                  THEN ScanDays(days, j + 1, day, pageDate)
                  ELSE ScanDays(days, j + 1, first, pageDate)

\* PageDate.split("-")[0] + "-" + PageDate.split("-")[1]
YearMonthOf(pageDate) ==
    LET split == Split(pageDate, "-")
    IN  split[1] \o "-" \o (IF Len(split) >= 2 THEN split[2] ELSE "undefined")

\* a loop that settles for the first month of the catalog when none matches
ResolveDateAnyMonth(dates, pageDate, pageType) ==
    LET hits == {i \in DOMAIN dates : dates[i].date = YearMonthOf(pageDate)}
        month == dates[IF hits = {} THEN 1 ELSE CHOOSE i \in hits : \A k \in hits : i <= k]
    IN  IF dates = <<>> THEN [latest |-> Null, foundExact |-> FALSE]
        ELSE IF pageType = DateTypeMonth \/ hits = {}
             THEN [latest |-> month, foundExact |-> TRUE]
             ELSE ScanDays(month.days, 1, Null, pageDate)

\* for (let i = 0; i < Dates.length; i++): latest and foundExact after the loop
ResolveDate(dates, pageDate, pageType) ==
    LET hits == {i \in DOMAIN dates : dates[i].date = YearMonthOf(pageDate)}
    IN  IF hits = {} THEN [latest |-> Null, foundExact |-> FALSE]
        ELSE LET month == dates[CHOOSE i \in hits : \A k \in hits : i <= k]
             IN  IF pageType = DateTypeMonth
                 THEN [latest |-> month, foundExact |-> TRUE]
                 ELSE ScanDays(month.days, 1, Null, pageDate)

(***************************************************************************)
(* The page, the clock and the backend                                     *)
(***************************************************************************)
\* new Date().toISOString().split("T")[0]
TodayIs == "2021-07-10"

GoodCarbon == Obj(<<Prop("2021-07-22", Num(2))>>)

\* the query strings the page is opened with
UrlParams ==
    {Undefined, Str("date=2021-07-20"), Str("date=2021-08"), Str("date=2021-13")}

\* what GET dates answers
DatesResponses ==
    { Obj(<<Prop("2021-07", Arr(<<Num(5), Num(20)>>))>>),
      Obj(<<Prop("2021-13", Arr(<<Num(1)>>))>>),
      Obj(<<Prop("2021-07", Arr(<<Null>>))>>),
      Obj(<<Prop("2021-07", Num(5))>>) }

\* the timestamp of the row GET report/{date} answers with
TimestampOf(date) ==
    IF Len(date) = 7 THEN date \o "-01 00:00:00+00:00" ELSE date \o " 00:00:00+00:00"

EnergyFor(date) ==
    Obj(<<Prop("data", Arr(<<Arr(<<Str(TimestampOf(date)), Num(1), Num(2), Num(4),
                                  Null, Num(2), Num(4)>>)>>)),
          Prop("carbonRate", Obj(<<Prop(Slice(TimestampOf(date), 0, 10), Num(2))>>))>>)
EnergyNullTime ==
    Obj(<<Prop("data", Arr(<<Arr(<<Null, Num(1), Num(2), Num(4), Num(1), Num(2), Num(4)>>)>>)),
          Prop("carbonRate", GoodCarbon)>>)
EnergyNoCarbon == Obj(<<Prop("data", Arr(<<>>))>>)
\* what GET report/{date} answers
EnergyResponses(date) == {EnergyFor(date), EnergyNullTime, EnergyNoCarbon}

DayOf(date) == IF Len(date) = 7 THEN date \o "-01" ELSE date
BidsFor(date) ==
    Obj(<<Prop("data", Arr(<<Arr(<<Str(DayOf(date)), Num(0), Str("SELL"), Num(2), Num(3)>>)>>))>>)
BidsShortRow == Obj(<<Prop("data", Arr(<<Arr(<<Str("2021-07-22"), Num(0)>>)>>))>>)
BidsNotAnArray == Obj(<<Prop("data", Str("not-an-array"))>>)
\* what GET bids/{date} answers
BidResponses(date) == {BidsFor(date), BidsShortRow, BidsNotAnArray}

(***************************************************************************)
(* index.ts: the state after the module is evaluated, before window.onload *)
(***************************************************************************)
Sections == {"energy", "market", "dates"}

Event(op, arg, outcome, links) ==
    [op |-> op, arg |-> arg, outcome |-> outcome, links |-> links]

NavStart(query) ==
    /\ PageDate = Undefined
    /\ Today = Undefined
    /\ PageType = Undefined
    /\ HasBidData = Undefined
    /\ HasEnergyData = Undefined
    /\ flagLoading = Undefined
    /\ Dates = Undefined
    /\ Energy = Undefined
    /\ Bids = Undefined
    /\ phase = "start"
    /\ location = query
    /\ urlDate = Undefined
    \* index.html: the skeletons are shown and the canvases hidden
    /\ skeleton = [s \in Sections |-> "visible"]
    \* index.html: <div id="overlayLoading" class="overlay">
    /\ overlay = TRUE
    /\ buttonLoading = FALSE
    /\ datesReq = "idle"
    /\ calls = <<>>
    /\ last = Event("load", "", "none", <<>>)
    /\ settled = [energy |-> "none", bids |-> "none"]

PureIdle ==
    /\ callFn = "none"
    /\ callType = "none"
    /\ callArg = Undefined
    /\ callRet = [t |-> "notcalled"]

Init == (\E query \in UrlParams : NavStart(query)) /\ PureIdle

(***************************************************************************)
(* index.ts: markLoading, markLoaded, UpdatePage, ChangeDate               *)
(***************************************************************************)
\* a promise reaction (a catch or finally callback) is queued: it runs before
\* any click and before any network event
MicrotaskPending ==
    \/ datesReq = "catch"
    \/ \E i \in DOMAIN calls : calls[i].energy \in {"catch", "finally"}
                               \/ calls[i].bids \in {"catch", "finally"}

\* flagLoading after `flagLoading = 1; markLoading();`
FlagAfterChangeDate(flag) == JsAdd(Num(1), Num(1))

\* flagLoading after markLoaded()
FlagAfterMarkLoaded(flag) == JsSub(flag, Num(1))

\* markLoaded()
MarkLoaded ==
    /\ flagLoading' = FlagAfterMarkLoaded(flagLoading)
    /\ IF FlagAfterMarkLoaded(flagLoading) = Num(0)
       THEN overlay' = FALSE /\ buttonLoading' = FALSE
       ELSE UNCHANGED <<overlay, buttonLoading>>

\* the query string UpdatePage() leaves in the address bar
QueryOf(pageDate) == Str("date=" \o pageDate)

\* a ChangeDate that stores the date before it validates it
ChangeDateStoresFirst(date, before) ==
    IF ~ValidateDate(date)
    THEN /\ PageDate' = Str(date)
         /\ UNCHANGED <<PageType, location, flagLoading, overlay, buttonLoading, calls>>
    ELSE /\ PageType' = IF Len(date) = 7 THEN DateTypeMonth ELSE DateTypeDay
         /\ PageDate' = Str(date)
         /\ location' = QueryOf(date)
         /\ flagLoading' = FlagAfterChangeDate(flagLoading)
         /\ overlay' = TRUE
         /\ buttonLoading' = TRUE
         /\ calls' = Append(calls, [date |-> date, energy |-> "fetch", bids |-> "fetch"])

\* ChangeDate(date), called with PageDate = before
ChangeDate(date, before) ==
    IF ~ValidateDate(date)
    THEN /\ PageDate' = before
         /\ UNCHANGED <<PageType, location, flagLoading, overlay, buttonLoading, calls>>
    ELSE /\ PageType' = IF Len(date) = 7 THEN DateTypeMonth ELSE DateTypeDay
         /\ PageDate' = Str(date)
         /\ location' = QueryOf(date)
         /\ flagLoading' = FlagAfterChangeDate(flagLoading)
         /\ overlay' = TRUE
         /\ buttonLoading' = TRUE
         /\ calls' = Append(calls, [date |-> date, energy |-> "fetch", bids |-> "fetch"])

(***************************************************************************)
(* index.ts: pageLoad                                                      *)
(***************************************************************************)
\* urlDate and PageType after "Extract date parameter from url"
UrlDateOf(param) ==
    IF param = Undefined THEN [urlDate |-> Null, type |-> DateTypeDay]
    ELSE IF Len(param.v) > 13 /\ Len(param.v) < 16 /\ Len(Split(param.v, "date=")) = 2
         THEN [urlDate |-> Str(Split(param.v, "date=")[2]), type |-> DateTypeDay]
    ELSE IF Len(param.v) > 10 /\ Len(param.v) < 13 /\ Len(Split(param.v, "date=")) = 2
         THEN [urlDate |-> Str(Split(param.v, "date=")[2]), type |-> DateTypeMonth]
    ELSE [urlDate |-> Null, type |-> DateTypeDay]

\* PageDate after "Set current url date"
InitialPageDate(url, today) ==
    IF url # Null /\ ValidateDate(url.v) THEN url ELSE today

PageLoad ==
    /\ phase = "start"
    /\ phase' = "running"
    /\ Today' = Str(TodayIs)
    /\ skeleton' = [s \in Sections |-> "visible"]
    /\ urlDate' = UrlDateOf(location).urlDate
    /\ PageType' = UrlDateOf(location).type
    /\ PageDate' = InitialPageDate(UrlDateOf(location).urlDate, Str(TodayIs))
    /\ datesReq' = "fetch"
    /\ location' = QueryOf(InitialPageDate(UrlDateOf(location).urlDate, Str(TodayIs)).v)
    /\ last' = Event("pageLoad", "", "none", <<>>)
    /\ UNCHANGED <<HasBidData, HasEnergyData, flagLoading, Dates, Energy, Bids,
                   overlay, buttonLoading, calls, pureVars>>
    /\ UNCHANGED settled

\* RequestDates() fulfilled: the callback calls response.json()
DatesFetchResolved ==
    /\ datesReq = "fetch" /\ ~MicrotaskPending
    /\ datesReq' = "json"
    /\ last' = Event("DatesResponse", "", "none", <<>>)
    /\ UNCHANGED <<pageVars, domVars, calls, pureVars>>
    /\ UNCHANGED settled

\* RequestDates() rejected: the outer catch
DatesFetchRejected ==
    /\ datesReq = "fetch" /\ ~MicrotaskPending
    /\ datesReq' = "done"
    /\ skeleton' = [skeleton EXCEPT !["dates"] = "error"]
    /\ last' = Event("DatesCatch", "dates", "rejected", <<>>)
    /\ UNCHANGED <<pageVars, phase, location, urlDate, overlay, buttonLoading, calls, pureVars>>
    /\ UNCHANGED settled

\* response.json() rejected: the inner catch
DatesJsonRejected ==
    /\ datesReq = "json" /\ ~MicrotaskPending
    /\ datesReq' = "done"
    /\ skeleton' = [skeleton EXCEPT !["dates"] = "error"]
    /\ last' = Event("DatesCatch", "dates", "undecodable", <<>>)
    /\ UNCHANGED <<pageVars, phase, location, urlDate, overlay, buttonLoading, calls, pureVars>>
    /\ UNCHANGED settled

\* day.toString() throws on a null day
ProcessDatesThrows(data) ==
    \E i \in DOMAIN data.v : \E j \in DOMAIN data.v[i].v.v : LooseNull(data.v[i].v.v[j])

\* response.json() fulfilled with result: the inner then callback
DatesJsonResolved(result) ==
    /\ datesReq = "json" /\ ~MicrotaskPending
    /\ IF ~ValidateResponse(result, "dates")
       THEN /\ datesReq' = "done"
            /\ last' = Event("DatesThen", "dates", "invalid", <<>>)
            /\ UNCHANGED <<pageVars, domVars, calls>>
       ELSE IF ProcessDatesThrows(result)
       THEN /\ datesReq' = "catch"
            /\ last' = Event("DatesThen", "dates", "threw", <<>>)
            /\ UNCHANGED <<pageVars, domVars, calls>>
       ELSE LET months == ProcessDates(result)
                found == ResolveDate(months, PageDate.v, PageType)
                fallback == urlDate = Null /\ ~found.foundExact /\ found.latest # Null
                pageDate == IF fallback THEN Str(found.latest.date) ELSE PageDate
                foundExact == fallback \/ found.foundExact
            IN  /\ datesReq' = "done"
                /\ Dates' = Arr(months)
                /\ skeleton' = [skeleton EXCEPT !["dates"] = "hidden"]
                /\ IF foundExact /\ found.latest # Null
                   THEN /\ ChangeDate(found.latest.date, pageDate)
                        /\ last' = Event("DatesThen", found.latest.date,
                                         IF ValidateDate(found.latest.date)
                                         THEN "accepted" ELSE "rejected", <<>>)
                   ELSE /\ PageDate' = pageDate
                        /\ last' = Event("DatesThen", "dates", "unresolved", <<>>)
                        /\ UNCHANGED <<PageType, location, flagLoading, overlay,
                                       buttonLoading, calls>>
                /\ UNCHANGED <<Today, HasBidData, HasEnergyData, Energy, Bids, phase, urlDate>>
    /\ UNCHANGED pureVars
    /\ UNCHANGED settled

\* the inner catch, after the then callback threw
DatesCatch ==
    /\ datesReq = "catch"
    /\ datesReq' = "done"
    /\ skeleton' = [skeleton EXCEPT !["dates"] = "error"]
    /\ last' = Event("DatesCatch", "dates", "threw", <<>>)
    /\ UNCHANGED <<pageVars, phase, location, urlDate, overlay, buttonLoading, calls, pureVars>>
    /\ UNCHANGED settled

(***************************************************************************)
(* index.ts: the links CreateDates builds, and download                    *)
(***************************************************************************)
\* the dates the onclick callbacks of CreateDates hand to ChangeDate
LinkDates(months) ==
    {months[i].date : i \in DOMAIN months}
    \cup UNION {{months[i].days[j].date : j \in DOMAIN months[i].days} : i \in DOMAIN months}

\* a click on a link of the history list
ClickLink(date) ==
    /\ phase = "running" /\ ~MicrotaskPending
    /\ Dates # Undefined
    /\ date \in LinkDates(Dates.v)
    /\ Len(calls) < MaxCalls
    /\ ChangeDate(date, PageDate)
    /\ last' = Event("ChangeDate", date,
                     IF ValidateDate(date) THEN "accepted" ELSE "rejected", <<>>)
    /\ UNCHANGED <<Today, HasBidData, HasEnergyData, Dates, Energy, Bids,
                   phase, urlDate, skeleton, datesReq, pureVars>>
    /\ UNCHANGED settled

\* the links download() clicks
DownloadLinks ==
    IF flagLoading # Num(0) THEN <<>>
    ELSE (IF HasEnergyData = Bool(TRUE) THEN <<"api/downloads/energy/" \o PageDate.v>> ELSE <<>>)
         \o (IF HasBidData = Bool(TRUE) THEN <<"api/downloads/bids/" \o PageDate.v>> ELSE <<>>)

\* a click on ButtonDownload
Download ==
    /\ phase = "running" /\ ~MicrotaskPending
    /\ last' = Event("download", "",
                     IF flagLoading # Num(0) THEN "cancelled" ELSE "done", DownloadLinks)
    /\ UNCHANGED <<pageVars, domVars, datesReq, calls, pureVars>>
    /\ UNCHANGED settled

(***************************************************************************)
(* index.ts: the energy pipeline of ChangeDate                             *)
(***************************************************************************)
Stage(i, kind, st) == [calls EXCEPT ![i][kind] = st]

\* RequestEnergy(date) fulfilled: the callback calls response.json()
EnergyFetchResolved(i) ==
    /\ calls[i].energy = "fetch" /\ ~MicrotaskPending
    /\ calls' = Stage(i, "energy", "json")
    /\ last' = Event("EnergyResponse", calls[i].date, "none", <<>>)
    /\ UNCHANGED <<pageVars, domVars, datesReq, pureVars>>
    /\ UNCHANGED settled

\* RequestEnergy(date) rejected: the outer catch
EnergyFetchRejected(i) ==
    /\ calls[i].energy = "fetch" /\ ~MicrotaskPending
    /\ calls' = Stage(i, "energy", "done")
    /\ HasEnergyData' = Bool(FALSE)
    /\ skeleton' = [skeleton EXCEPT !["energy"] = "error"]
    /\ MarkLoaded
    /\ last' = Event("EnergyCatch", calls[i].date, "rejected", <<>>)
    /\ UNCHANGED <<PageDate, Today, PageType, HasBidData, Dates, Energy, Bids,
                   phase, location, urlDate, datesReq, pureVars>>
    /\ settled' = [settled EXCEPT !.energy = "error"]

\* a catch handler that marks every chart section, not only the energy one
EnergyCatchHandlerAllCharts ==
    /\ HasEnergyData' = Bool(FALSE)
    /\ skeleton' = [skeleton EXCEPT !["energy"] = "error", !["market"] = "error"]
    /\ UNCHANGED <<PageDate, Today, PageType, HasBidData, flagLoading, Dates, Energy, Bids,
                   phase, location, urlDate, overlay, buttonLoading, datesReq, pureVars>>
    /\ settled' = [settled EXCEPT !.energy = "error"]

\* the handler of the inner catch
EnergyCatchHandler ==
    /\ HasEnergyData' = Bool(FALSE)
    /\ skeleton' = [skeleton EXCEPT !["energy"] = "error"]
    /\ UNCHANGED <<PageDate, Today, PageType, HasBidData, flagLoading, Dates, Energy, Bids,
                   phase, location, urlDate, overlay, buttonLoading, datesReq, pureVars>>
    /\ settled' = [settled EXCEPT !.energy = "error"]

\* response.json() rejected: the inner catch
EnergyJsonRejected(i) ==
    /\ calls[i].energy = "json" /\ ~MicrotaskPending
    /\ calls' = Stage(i, "energy", "finally")
    /\ EnergyCatchHandler
    /\ last' = Event("EnergyCatch", calls[i].date, "undecodable", <<>>)

\* time.slice throws on a time that is not a string
TimeLabelsThrow(energy) ==
    \E i \in DOMAIN energy.times : TypeOf(energy.times[i]) # "string"

\* newTimes: the labels of Day or Month mode
TimeLabels(energy, pageType) ==
    [ i \in DOMAIN energy.times |->
        IF pageType = DateTypeDay
        THEN Str(Slice(energy.times[i].v, 11, 16))
        ELSE Str(Slice(energy.times[i].v, 0, 16)) ]

\* a then callback that drops the response of a date that is no longer the
\* page date
EnergyJsonResolvedCurrentOnly(i, result) ==
    /\ calls[i].energy = "json" /\ ~MicrotaskPending
    /\ IF ~ValidateResponse(result, "energy")
       THEN /\ calls' = Stage(i, "energy", "finally")
            /\ last' = Event("EnergyThen", calls[i].date, "invalid", <<>>)
            /\ UNCHANGED <<Energy, HasEnergyData, skeleton>>
       ELSE IF TimeLabelsThrow(ProcessEnergy(result))
       THEN /\ calls' = Stage(i, "energy", "catch")
            /\ Energy' = ProcessEnergy(result)
            /\ HasEnergyData' = Bool(TRUE)
            /\ last' = Event("EnergyThen", calls[i].date, "threw", <<>>)
            /\ UNCHANGED skeleton
       ELSE /\ calls' = Stage(i, "energy", "finally")
            /\ last' = Event("EnergyThen", calls[i].date, "ok", <<>>)
            /\ IF calls[i].date # PageDate.v
               THEN UNCHANGED <<Energy, HasEnergyData, skeleton>>
               ELSE /\ Energy' = [ProcessEnergy(result) EXCEPT
                                     !.times = TimeLabels(ProcessEnergy(result), PageType)]
                    /\ HasEnergyData' = Bool(TRUE)
                    /\ skeleton' = [skeleton EXCEPT !["energy"] = "hidden"]
    /\ UNCHANGED <<PageDate, Today, PageType, HasBidData, flagLoading, Dates, Bids,
                   phase, location, urlDate, overlay, buttonLoading, datesReq, pureVars>>
    /\ settled' = [settled EXCEPT !.energy =
                      IF ~ValidateResponse(result, "energy") THEN "invalid"
                      ELSE IF TimeLabelsThrow(ProcessEnergy(result)) THEN "error" ELSE "ok"]

\* a then callback that marks the cached aggregate unavailable when the
\* payload fails validation
EnergyJsonResolvedClearsInvalid(i, result) ==
    /\ calls[i].energy = "json" /\ ~MicrotaskPending
    /\ IF ~ValidateResponse(result, "energy")
       THEN /\ calls' = Stage(i, "energy", "finally")
            /\ Energy' = Undefined
            /\ last' = Event("EnergyThen", calls[i].date, "invalid", <<>>)
            /\ UNCHANGED <<HasEnergyData, skeleton>>
       ELSE IF TimeLabelsThrow(ProcessEnergy(result))
       THEN /\ calls' = Stage(i, "energy", "catch")
            /\ Energy' = ProcessEnergy(result)
            /\ HasEnergyData' = Bool(TRUE)
            /\ last' = Event("EnergyThen", calls[i].date, "threw", <<>>)
            /\ UNCHANGED skeleton
       ELSE /\ calls' = Stage(i, "energy", "finally")
            /\ Energy' = [ProcessEnergy(result) EXCEPT
                             !.times = TimeLabels(ProcessEnergy(result), PageType)]
            /\ HasEnergyData' = Bool(TRUE)
            /\ skeleton' = [skeleton EXCEPT !["energy"] = "hidden"]
            /\ last' = Event("EnergyThen", calls[i].date, "ok", <<>>)
    /\ UNCHANGED <<PageDate, Today, PageType, HasBidData, flagLoading, Dates, Bids,
                   phase, location, urlDate, overlay, buttonLoading, datesReq, pureVars>>
    /\ settled' = [settled EXCEPT !.energy =
                      IF ~ValidateResponse(result, "energy") THEN "invalid"
                      ELSE IF TimeLabelsThrow(ProcessEnergy(result)) THEN "error" ELSE "ok"]

\* response.json() fulfilled with result: the inner then callback
EnergyJsonResolved(i, result) ==
    /\ calls[i].energy = "json" /\ ~MicrotaskPending
    /\ IF ~ValidateResponse(result, "energy")
       THEN /\ calls' = Stage(i, "energy", "finally")
            /\ last' = Event("EnergyThen", calls[i].date, "invalid", <<>>)
            /\ UNCHANGED <<Energy, HasEnergyData, skeleton>>
       ELSE IF TimeLabelsThrow(ProcessEnergy(result))
       THEN /\ calls' = Stage(i, "energy", "catch")
            /\ Energy' = ProcessEnergy(result)
            /\ HasEnergyData' = Bool(TRUE)
            /\ last' = Event("EnergyThen", calls[i].date, "threw", <<>>)
            /\ UNCHANGED skeleton
       ELSE /\ calls' = Stage(i, "energy", "finally")
            /\ Energy' = [ProcessEnergy(result) EXCEPT
                             !.times = TimeLabels(ProcessEnergy(result), PageType)]
            /\ HasEnergyData' = Bool(TRUE)
            /\ skeleton' = [skeleton EXCEPT !["energy"] = "hidden"]
            /\ last' = Event("EnergyThen", calls[i].date, "ok", <<>>)
    /\ UNCHANGED <<PageDate, Today, PageType, HasBidData, flagLoading, Dates, Bids,
                   phase, location, urlDate, overlay, buttonLoading, datesReq, pureVars>>
    /\ settled' = [settled EXCEPT !.energy =
                      IF ~ValidateResponse(result, "energy") THEN "invalid"
                      ELSE IF TimeLabelsThrow(ProcessEnergy(result)) THEN "error" ELSE "ok"]

\* an inner catch that requests the energy data again
EnergyCatchRetries(i) ==
    /\ calls[i].energy = "catch"
    /\ calls' = Stage(i, "energy", "fetch")
    /\ EnergyCatchHandler
    /\ last' = Event("EnergyCatch", calls[i].date, "threw", <<>>)

\* the inner catch, after the then callback threw
EnergyCatch(i) ==
    /\ calls[i].energy = "catch"
    /\ calls' = Stage(i, "energy", "finally")
    /\ EnergyCatchHandler
    /\ last' = Event("EnergyCatch", calls[i].date, "threw", <<>>)

\* the finally callback
EnergyFinally(i) ==
    /\ calls[i].energy = "finally"
    /\ calls' = Stage(i, "energy", "done")
    /\ MarkLoaded
    /\ last' = Event("EnergyFinally", calls[i].date, "none", <<>>)
    /\ UNCHANGED <<PageDate, Today, PageType, HasBidData, HasEnergyData, Dates, Energy, Bids,
                   phase, location, urlDate, skeleton, datesReq, pureVars>>
    /\ UNCHANGED settled

(***************************************************************************)
(* index.ts: the bid pipeline of ChangeDate                                *)
(***************************************************************************)
\* RequestBids(date) fulfilled: the callback calls response.json()
BidFetchResolved(i) ==
    /\ calls[i].bids = "fetch" /\ ~MicrotaskPending
    /\ calls' = Stage(i, "bids", "json")
    /\ last' = Event("BidResponse", calls[i].date, "none", <<>>)
    /\ UNCHANGED <<pageVars, domVars, datesReq, pureVars>>
    /\ UNCHANGED settled

\* RequestBids(date) rejected: the outer catch
BidFetchRejected(i) ==
    /\ calls[i].bids = "fetch" /\ ~MicrotaskPending
    /\ calls' = Stage(i, "bids", "done")
    /\ HasBidData' = Bool(FALSE)
    /\ skeleton' = [skeleton EXCEPT !["market"] = "error"]
    /\ MarkLoaded
    /\ last' = Event("BidCatch", calls[i].date, "rejected", <<>>)
    /\ UNCHANGED <<PageDate, Today, PageType, HasEnergyData, Dates, Energy, Bids,
                   phase, location, urlDate, datesReq, pureVars>>
    /\ settled' = [settled EXCEPT !.bids = "error"]

\* the handler of the inner catch
BidCatchHandler ==
    /\ HasBidData' = Bool(FALSE)
    /\ skeleton' = [skeleton EXCEPT !["market"] = "error"]
    /\ UNCHANGED <<PageDate, Today, PageType, HasEnergyData, flagLoading, Dates, Energy, Bids,
                   phase, location, urlDate, overlay, buttonLoading, datesReq, pureVars>>
    /\ settled' = [settled EXCEPT !.bids = "error"]

\* response.json() rejected: the inner catch
BidJsonRejected(i) ==
    /\ calls[i].bids = "json" /\ ~MicrotaskPending
    /\ calls' = Stage(i, "bids", "finally")
    /\ BidCatchHandler
    /\ last' = Event("BidCatch", calls[i].date, "undecodable", <<>>)

\* bid.hour.toString() (displayOverviewMarket) and bid.type.toString()
\* (UpdateBidTable) throw on a missing field
BidRenderThrows(bidData) ==
    \E i \in DOMAIN bidData.bids :
        LooseNull(bidData.bids[i].hour) \/ LooseNull(bidData.bids[i].type)

\* response.json() fulfilled with result: the inner then callback
BidJsonResolved(i, result) ==
    /\ calls[i].bids = "json" /\ ~MicrotaskPending
    /\ IF ~ValidateResponse(result, "bids")
       THEN /\ calls' = Stage(i, "bids", "finally")
            /\ last' = Event("BidThen", calls[i].date, "invalid", <<>>)
            /\ UNCHANGED <<Bids, HasBidData, skeleton>>
       ELSE IF BidRenderThrows(ProcessBids(result))
       THEN /\ calls' = Stage(i, "bids", "catch")
            /\ Bids' = ProcessBids(result)
            /\ HasBidData' = Bool(TRUE)
            /\ last' = Event("BidThen", calls[i].date, "threw", <<>>)
            /\ UNCHANGED skeleton
       ELSE /\ calls' = Stage(i, "bids", "finally")
            /\ Bids' = ProcessBids(result)
            /\ HasBidData' = Bool(TRUE)
            /\ skeleton' = [skeleton EXCEPT !["market"] = "hidden"]
            /\ last' = Event("BidThen", calls[i].date, "ok", <<>>)
    /\ UNCHANGED <<PageDate, Today, PageType, HasEnergyData, flagLoading, Dates, Energy,
                   phase, location, urlDate, overlay, buttonLoading, datesReq, pureVars>>
    /\ settled' = [settled EXCEPT !.bids =
                      IF ~ValidateResponse(result, "bids") THEN "invalid"
                      ELSE IF BidRenderThrows(ProcessBids(result)) THEN "error" ELSE "ok"]

\* the inner catch, after the then callback threw
BidCatch(i) ==
    /\ calls[i].bids = "catch"
    /\ calls' = Stage(i, "bids", "finally")
    /\ BidCatchHandler
    /\ last' = Event("BidCatch", calls[i].date, "threw", <<>>)

\* the finally callback
BidFinally(i) ==
    /\ calls[i].bids = "finally"
    /\ calls' = Stage(i, "bids", "done")
    /\ MarkLoaded
    /\ last' = Event("BidFinally", calls[i].date, "none", <<>>)
    /\ UNCHANGED <<PageDate, Today, PageType, HasBidData, HasEnergyData, Dates, Energy, Bids,
                   phase, location, urlDate, skeleton, datesReq, pureVars>>
    /\ UNCHANGED settled

(***************************************************************************)
(* The page as a state machine                                             *)
(***************************************************************************)
AllLinkDates == UNION {LinkDates(ProcessDates(d)) : d \in {x \in DatesResponses :
                          ValidateResponse(x, "dates") /\ ~ProcessDatesThrows(x)}}

Next ==
    \/ PageLoad
    \/ DatesFetchResolved
    \/ DatesFetchRejected
    \/ DatesJsonRejected
    \/ \E result \in DatesResponses : DatesJsonResolved(result)
    \/ DatesCatch
    \/ \E date \in AllLinkDates : ClickLink(date)
    \/ Download
    \/ \E i \in DOMAIN calls : EnergyFetchResolved(i)
    \/ \E i \in DOMAIN calls : EnergyFetchRejected(i)
    \/ \E i \in DOMAIN calls : EnergyJsonRejected(i)
    \/ \E i \in DOMAIN calls : \E result \in EnergyResponses(calls[i].date) :
          EnergyJsonResolved(i, result)
    \/ \E i \in DOMAIN calls : EnergyCatch(i)
    \/ \E i \in DOMAIN calls : EnergyFinally(i)
    \/ \E i \in DOMAIN calls : BidFetchResolved(i)
    \/ \E i \in DOMAIN calls : BidFetchRejected(i)
    \/ \E i \in DOMAIN calls : BidJsonRejected(i)
    \/ \E i \in DOMAIN calls : \E result \in BidResponses(calls[i].date) :
          BidJsonResolved(i, result)
    \/ \E i \in DOMAIN calls : BidCatch(i)
    \/ \E i \in DOMAIN calls : BidFinally(i)

Spec == Init /\ [][Next]_vars

(***************************************************************************)
(* Claims about the page                                                   *)
(***************************************************************************)
\* the outcomes of a handler that ends a fetch in failure: the payload failed
\* ValidateResponse, the fetch rejected, the JSON decode rejected
FailureOutcomes == {"invalid", "rejected", "undecodable"}

\* C1: whenever a section's fetch ends in a validation failure or a transport
\* failure, the section's skeleton is Error, and for Energy and Market the
\* success flag HasEnergyData / HasBidData is false.
C1_FailedFetchShowsError ==
    /\ (last.op \in {"EnergyThen", "EnergyCatch"} /\ last.outcome \in FailureOutcomes)
          => (skeleton["energy"] = "error" /\ HasEnergyData = Bool(FALSE))
    /\ (last.op \in {"BidThen", "BidCatch"} /\ last.outcome \in FailureOutcomes)
          => (skeleton["market"] = "error" /\ HasBidData = Bool(FALSE))
    /\ (last.op \in {"DatesThen", "DatesCatch"} /\ last.arg = "dates"
           /\ last.outcome \in FailureOutcomes)
          => skeleton["dates"] = "error"

\* C2: right after a ChangeDate call with a valid date has started its
\* fetches, the Energy and the Market section are both Visible, whatever
\* state they were in before the call.
C2_ChangeDateShowsSkeletons ==
    (last.op \in {"ChangeDate", "DatesThen"} /\ last.outcome = "accepted")
       => (skeleton["energy"] = "visible" /\ skeleton["market"] = "visible")

\* C3: in every reachable state, if flagLoading is 0 then no energy or bid
\* pipeline started by any ChangeDate call is still pending.
C3_ZeroCounterMeansSettled ==
    flagLoading = Num(0)
       => \A i \in DOMAIN calls : calls[i].energy = "done" /\ calls[i].bids = "done"

(***************************************************************************)
(* Payloads handed to ValidateResponse: every JSON value up to MaxLen      *)
(* rows of up to MaxLen members, under a "data" key, with and without a    *)
(* "carbonRate" key, and as the values of a dates mapping.                 *)
(***************************************************************************)
SeqsUpTo(S, n) == UNION {[1..k -> S] : k \in 0..n}

Members == {Null, Num(0), Str("a")}
RowVals == {Arr(s) : s \in SeqsUpTo(Members, MaxLen)}
ElemVals == RowVals \cup Members
DataVals == {Arr(s) : s \in SeqsUpTo(ElemVals, MaxLen)} \cup Members

CarbonVals ==
    { Null, Num(0), Str("a"), Obj(<<>>), GoodCarbon, Arr(<<Num(1)>>), Arr(<<Null>>),
      Obj(<<Prop("2021-07-22", Str("x"))>>),
      Obj(<<Prop("2021-07-22", Num(2)), Prop("2021-07-23", Null)>>) }
FewData == {Arr(<<>>), Arr(<<Arr(<<Str("a"), Num(0)>>)>>), Arr(<<Num(0)>>), Str("a")}

NonObjects == Members \cup {Bool(TRUE), Undefined}
BidsPayloads ==
    NonObjects \cup {Obj(<<>>), Arr(<<>>)} \cup {Obj(<<Prop("data", d)>>) : d \in DataVals}
EnergyPayloads ==
    NonObjects \cup {Obj(<<>>), Arr(<<>>)}
    \cup {Obj(<<Prop("carbonRate", c)>>) : c \in CarbonVals}
    \cup {Obj(<<Prop("data", d)>>) : d \in FewData}
    \cup {Obj(<<Prop("data", d), Prop("carbonRate", c)>>) : d \in FewData, c \in CarbonVals}
    \cup {Obj(<<Prop("data", d), Prop("carbonRate", GoodCarbon)>>) : d \in DataVals}
DatesPayloads ==
    NonObjects \cup {Obj(<<>>)} \cup RowVals
    \cup {Arr(s) : s \in SeqsUpTo(ElemVals, 1)}
    \cup {Obj(<<Prop("2021-07", e)>>) : e \in ElemVals}
    \cup {Obj(<<Prop("2021-07", e1), Prop("2021-08", e2)>>) : e1 \in ElemVals, e2 \in ElemVals}

PayloadsOf(type) ==
    CASE type = "bids" -> BidsPayloads
      [] type = "energy" -> EnergyPayloads
      [] type = "dates" -> DatesPayloads

NotCalled == [t |-> "notcalled"]
Returned(x) == [t |-> "returned", v |-> x]

InitValidate ==
    /\ callFn = "ValidateResponse"
    /\ callType \in APIResponse
    /\ callArg \in PayloadsOf(callType)
    /\ callRet = NotCalled
    /\ NavStart(Undefined)

CallValidateResponse ==
    /\ callFn = "ValidateResponse"
    /\ callRet = NotCalled
    /\ callRet' = Returned(Bool(ValidateResponse(callArg, callType)))
    /\ UNCHANGED <<callFn, callType, callArg, navVars>>

NextValidate == CallValidateResponse

SpecValidate == InitValidate /\ [][NextValidate]_vars

(***************************************************************************)
(* ProcessBids applied to rows [date, hour, type, volume, price]           *)
(***************************************************************************)
BidRowsIn ==
    { Arr(<<Str("2021-07-22"), Num(h), Str(ty), Num(vol), Num(pr)>>) :
        h \in {0, 23}, ty \in {"SELL", "BUY", "HOLD"}, vol \in 0..MaxVal, pr \in 0..MaxVal }
BidsInputs == {Obj(<<Prop("data", Arr(rows))>>) : rows \in SeqsUpTo(BidRowsIn, MaxLen)}

InitBids ==
    /\ callFn = "ProcessBids"
    /\ callType = "bids"
    /\ callArg \in BidsInputs
    /\ callRet = NotCalled
    /\ NavStart(Undefined)

CallProcessBids ==
    /\ callFn = "ProcessBids"
    /\ callRet = NotCalled
    /\ callRet' = Returned(ProcessBids(callArg))
    /\ UNCHANGED <<callFn, callType, callArg, navVars>>

NextBids == CallProcessBids

SpecBids == InitBids /\ [][NextBids]_vars

(***************************************************************************)
(* ProcessEnergy applied to rows [timestamp, predicted demand, solar,      *)
(* wind, real demand, solar, wind]; a row varies its predicted or its real *)
(* triple.                                                                 *)
(***************************************************************************)
Timestamps == {Null, Str("2021-07-22 00:00:00+00:00"), Str("2021-07-23 00:30:00+00:00")}
DemandVals == {Null, Num(1), Num(9)}
SolarVals == {Null, Num(2)}
WindVals == {Null, Num(4)}
EnergyRowsIn ==
    { Arr(<<ts, pd, ps, pw, Num(1), Num(2), Num(4)>>) :
        ts \in Timestamps, pd \in DemandVals, ps \in SolarVals, pw \in WindVals }
    \cup
    { Arr(<<ts, Num(1), Num(2), Num(4), rd, rs, rw>>) :
        ts \in Timestamps, rd \in DemandVals, rs \in SolarVals, rw \in WindVals }
EnergyInputs ==
    { Obj(<<Prop("data", Arr(rows)), Prop("carbonRate", GoodCarbon)>>) :
        rows \in SeqsUpTo(EnergyRowsIn, MaxLen) }

InitEnergy ==
    /\ callFn = "ProcessEnergy"
    /\ callType = "energy"
    /\ callArg \in EnergyInputs
    /\ callRet = NotCalled
    /\ NavStart(Undefined)

CallProcessEnergy ==
    /\ callFn = "ProcessEnergy"
    /\ callRet = NotCalled
    /\ callRet' = Returned(ProcessEnergy(callArg))
    /\ UNCHANGED <<callFn, callType, callArg, navVars>>

NextEnergy == CallProcessEnergy

SpecEnergy == InitEnergy /\ [][NextEnergy]_vars

(***************************************************************************)
(* Properties of ValidateResponse                                          *)
(***************************************************************************)
Validated(type) == callFn = "ValidateResponse" /\ callType = type /\ callRet # NotCalled

IsObject(p) == p.t = "object" \/ p.t = "array"

BidsWellFormed(p) ==
    /\ IsObject(p)
    /\ IsArray(Get(p, "data"))
    /\ \A i \in DOMAIN Get(p, "data").v :
          LET element == Get(p, "data").v[i]
          IN  /\ IsArray(element)
              /\ \A j \in DOMAIN element.v : element.v[j].t \in {"number", "string"}

\* C4: ValidateResponse(payload, "bids") is true exactly when payload is a
\* non-null object whose data field is a sequence of sequences of numbers
\* and strings.
C4_BidsAcceptedIffWellFormed ==
    Validated("bids") => (callRet.v = Bool(TRUE) <=> BidsWellFormed(callArg))

EnergyWellFormed(p) ==
    /\ IsObject(p)
    /\ IsObject(Get(p, "carbonRate"))
    /\ \A i \in DOMAIN OwnValues(Get(p, "carbonRate")) :
          OwnValues(Get(p, "carbonRate"))[i].t = "number"
    /\ IsArray(Get(p, "data"))
    /\ \A i \in DOMAIN Get(p, "data").v :
          LET element == Get(p, "data").v[i]
          IN  /\ IsArray(element)
              /\ \A j \in DOMAIN element.v :
                    IF j = 1 THEN element.v[j].t \in {"string", "null"}
                    ELSE element.v[j].t \in {"number", "null"}

\* C5: ValidateResponse(payload, "energy") is true exactly when payload is a
\* non-null object with a carbonRate mapping of numbers and a data sequence
\* of rows whose element 0 is a string or null and whose other elements are
\* numbers or null.
C5_EnergyAcceptedIffWellFormed ==
    Validated("energy") => (callRet.v = Bool(TRUE) <=> EnergyWellFormed(callArg))

DatesWellFormed(p) ==
    /\ IsObject(p)
    /\ \A i \in DOMAIN OwnValues(p) : OwnValues(p)[i].t = "array"

\* C6: ValidateResponse(payload, "dates") returns a boolean for every payload,
\* and returns true exactly when payload is a non-null object every own value
\* of which is a sequence, whatever those sequences hold.
C6_DatesAcceptedIffAllSequences ==
    Validated("dates") =>
        /\ callRet.v \in {Bool(TRUE), Bool(FALSE)}
        /\ callRet.v = Bool(TRUE) <=> DatesWellFormed(callArg)

\* C6 witness: a mapping with one sequence value and one non-sequence value
\* was rejected, and (same shape, both sequences, one holding a non-number)
\* the rejected mapping differs from an accepted one only in that value.
C6_Witness ==
    /\ Validated("dates")
    /\ callArg = Obj(<<Prop("2021-07", Arr(<<Str("a"), Null>>)), Prop("2021-08", Num(0))>>)
    /\ callRet.v = Bool(FALSE)

(***************************************************************************)
(* Properties of ProcessBids                                               *)
(***************************************************************************)
BidsProcessed == callFn = "ProcessBids" /\ callRet # NotCalled
BidRowsOf(p) == Get(p, "data").v

\* C7: for every accepted bids payload, totalVolume == volumeSold + volumeBrought.
C7_TotalVolumeIsSoldPlusBrought ==
    BidsProcessed /\ ValidateResponse(callArg, "bids") =>
        callRet.v.totalVolume = JsAdd(callRet.v.volumeSold, callRet.v.volumeBrought)

RECURSIVE ProfitSum(_)
\* sum over rows of volume * price * (+1 if type is "SELL", otherwise -1)
ProfitSum(rows) ==
    IF rows = <<>> THEN 0
    ELSE LET row == Head(rows).v
         IN  row[4].v * row[5].v * (IF row[3].v = "SELL" THEN 1 ELSE -1)
             + ProfitSum(Tail(rows))

\* C8: ProcessBids returns one Bid per row, in row order, built from
\* positions 0..4, and profit is the signed sum of volume * price; for no
\* rows the four scalars are 0.
C8_BidsInOrderAndProfitSum ==
    BidsProcessed =>
        LET rows == BidRowsOf(callArg)
            r == callRet.v
        IN  /\ Len(r.bids) = Len(rows)
            /\ \A i \in 1..Len(rows) :
                  r.bids[i] = [ date |-> rows[i].v[1], hour |-> rows[i].v[2],
                                type |-> rows[i].v[3], volume |-> rows[i].v[4],
                                price |-> rows[i].v[5] ]
            /\ r.profit = Num(ProfitSum(rows))
            /\ rows = <<>> =>
                  /\ r.profit = Num(0)
                  /\ r.totalVolume = Num(0)
                  /\ r.volumeSold = Num(0)
                  /\ r.volumeBrought = Num(0)

\* C8 witness: two rows of different types, the second neither SELL nor BUY,
\* were processed and the profit is negative.
C8_Witness ==
    /\ BidsProcessed
    /\ Len(BidRowsOf(callArg)) = 2
    /\ BidRowsOf(callArg)[1].v[3] = Str("SELL")
    /\ BidRowsOf(callArg)[2].v[3] = Str("HOLD")
    /\ callRet.v.profit.v < 0
    /\ callRet.v.bids[1] # callRet.v.bids[2]

(***************************************************************************)
(* Properties of ProcessEnergy                                             *)
(***************************************************************************)
EnergyProcessed == callFn = "ProcessEnergy" /\ callRet # NotCalled
EnergyRowsOf(p) == Get(p, "data").v

\* C9: realTotalGeneration[i] is null iff real solar or real wind is null and
\* is their sum otherwise; realNetGeneration[i] is null iff the total is null
\* or real demand is null and is total - demand otherwise.
C9_RealTotalAndNetNullPolicy ==
    EnergyProcessed =>
        LET rows == EnergyRowsOf(callArg)
            r == callRet.v
        IN  \A i \in 1..Len(rows) :
               LET demand == rows[i].v[5]
                   solar == rows[i].v[6]
                   wind == rows[i].v[7]
                   total == r.realTotalGeneration[i]
                   net == r.realNetGeneration[i]
               IN  /\ total = Null <=> (solar = Null \/ wind = Null)
                   /\ total # Null => total = Num(solar.v + wind.v)
                   /\ net = Null <=> (total = Null \/ demand = Null)
                   /\ net # Null => net = Num(total.v - demand.v)

\* C9 witness: a row with null demand and non-null solar and wind got a
\* non-null total and a null net.
C9_Witness ==
    /\ EnergyProcessed
    /\ \E i \in 1..Len(EnergyRowsOf(callArg)) :
          /\ EnergyRowsOf(callArg)[i].v[5] = Null
          /\ callRet.v.realTotalGeneration[i] = Num(6)
          /\ callRet.v.realNetGeneration[i] = Null

\* C10: the eleven sequences have the length of the input rows and are
\* index-aligned with them; predictedTotal[i] = predictedSolar[i] +
\* predictedWind[i] and predictedNet[i] = predictedTotal[i] - predictedDemand[i].
C10_SequencesAlignedAndPredictedSums ==
    EnergyProcessed =>
        LET rows == EnergyRowsOf(callArg)
            r == callRet.v
            n == Len(rows)
        IN  /\ Len(r.times) = n
            /\ Len(r.predictedBuildingDemand) = n
            /\ Len(r.predictedSolarGeneration) = n
            /\ Len(r.predictedWindGeneration) = n
            /\ Len(r.realBuildingDemand) = n
            /\ Len(r.realSolarGeneration) = n
            /\ Len(r.realWindGeneration) = n
            /\ Len(r.predictedTotalGeneration) = n
            /\ Len(r.realTotalGeneration) = n
            /\ Len(r.predictedNetGeneration) = n
            /\ Len(r.realNetGeneration) = n
            /\ \A i \in 1..n :
                  /\ r.times[i] = rows[i].v[1]
                  /\ r.predictedBuildingDemand[i] = rows[i].v[2]
                  /\ r.predictedSolarGeneration[i] = rows[i].v[3]
                  /\ r.predictedWindGeneration[i] = rows[i].v[4]
                  /\ r.realBuildingDemand[i] = rows[i].v[5]
                  /\ r.realSolarGeneration[i] = rows[i].v[6]
                  /\ r.realWindGeneration[i] = rows[i].v[7]
                  /\ r.predictedTotalGeneration[i] =
                        JsAdd(r.predictedSolarGeneration[i], r.predictedWindGeneration[i])
                  /\ r.predictedNetGeneration[i] =
                        JsSub(r.predictedTotalGeneration[i], r.predictedBuildingDemand[i])

\* C10 witness: two different rows were processed, the second with a
\* predicted demand above its predicted generation.
C10_Witness ==
    /\ EnergyProcessed
    /\ Len(EnergyRowsOf(callArg)) = 2
    /\ EnergyRowsOf(callArg)[1] # EnergyRowsOf(callArg)[2]
    /\ callRet.v.predictedTotalGeneration = <<Num(6), Num(6)>>
    /\ callRet.v.predictedNetGeneration = <<Num(5), Num(-3)>>

\* the rate C11 gives a row: the carbonRate entry of the first 10 characters
\* of its timestamp, 0 when the timestamp is not a string
ClaimedRate(p, row) ==
    IF row.v[1].t = "string"
    THEN Get(Get(p, "carbonRate"), SubSeq(row.v[1].v, 1, 10))
    ELSE Num(0)

\* rows whose predicted fields are integers and whose real fields are integers or null
IntegerFields(rows) ==
    \A i \in 1..Len(rows) :
       /\ \A j \in 2..4 : rows[i].v[j].t = "number"
       /\ \A j \in 5..7 : rows[i].v[j].t \in {"number", "null"}

RECURSIVE PredictedCarbonSum(_, _)
\* the sum over rows 1..n of predictedNet * rate
PredictedCarbonSum(p, n) ==
    IF n = 0 THEN 0
    ELSE LET row == EnergyRowsOf(p)[n]
         IN  PredictedCarbonSum(p, n - 1)
             + (row.v[3].v + row.v[4].v - row.v[2].v) * ClaimedRate(p, row).v

RECURSIVE RealCarbonSum(_, _)
\* the sum over the rows of 1..n with a non-null real net of realNet * rate
RealCarbonSum(p, n) ==
    IF n = 0 THEN 0
    ELSE LET row == EnergyRowsOf(p)[n]
         IN  RealCarbonSum(p, n - 1)
             + (IF row.v[5] = Null \/ row.v[6] = Null \/ row.v[7] = Null THEN 0
                ELSE (row.v[6].v + row.v[7].v - row.v[5].v) * ClaimedRate(p, row).v)

\* C11: for an accepted energy payload with integer fields, predictedCarbonSaved
\* is the sum over all rows of predictedNet * rate and realCarbonSaved the sum
\* over the rows with a non-null real net of realNet * rate, the rate being the
\* carbonRate entry of the timestamp's day (0 for a non-string timestamp); both
\* accumulators are numbers.
C11_CarbonSavedAreSums ==
    (EnergyProcessed /\ ValidateResponse(callArg, "energy")
        /\ IntegerFields(EnergyRowsOf(callArg)))
    => /\ callRet.v.predictedCarbonSaved.t = "number"
       /\ callRet.v.realCarbonSaved.t = "number"
       /\ callRet.v.predictedCarbonSaved
             = Num(PredictedCarbonSum(callArg, Len(EnergyRowsOf(callArg))))
       /\ callRet.v.realCarbonSaved
             = Num(RealCarbonSum(callArg, Len(EnergyRowsOf(callArg))))

(***************************************************************************)
(* The date resolution loop applied to a processed catalog, a target       *)
(* PageDate and a PageType                                                 *)
(***************************************************************************)
CatalogMonths == {"2021-07", "2021-08"}
CatalogDays == {Num(5), Num(10), Num(20)}
DayLists == {Arr(days) : days \in SeqsUpTo(CatalogDays, MaxLen)}
\* the mappings GET dates can answer with: no, one or two months, in either order
Catalogs ==
    {Obj(<<>>)}
    \cup {Obj(<<Prop(m, d)>>) : m \in CatalogMonths, d \in DayLists}
    \cup {Obj(<<Prop(m[1], d1), Prop(m[2], d2)>>) :
             m \in {x \in CatalogMonths \X CatalogMonths : x[1] # x[2]},
             d1 \in DayLists, d2 \in DayLists}
ResolveTargets == {"2021-07-10", "2021-07-20", "2021-07", "2021-09-01"}
ResolveInputs ==
    { [dates |-> c, pageDate |-> t, pageType |-> ty] :
        c \in Catalogs, t \in ResolveTargets, ty \in {DateTypeDay, DateTypeMonth} }

InitResolve ==
    /\ callFn = "ResolveDate"
    /\ callType = "dates"
    /\ callArg \in ResolveInputs
    /\ callRet = NotCalled
    /\ NavStart(Undefined)

CallResolveDate ==
    /\ callFn = "ResolveDate"
    /\ callRet = NotCalled
    /\ callRet' = Returned(ResolveDate(ProcessDates(callArg.dates), callArg.pageDate,
                                       callArg.pageType))
    /\ UNCHANGED <<callFn, callType, callArg, navVars>>

NextResolve == CallResolveDate

SpecResolve == InitResolve /\ [][NextResolve]_vars

(***************************************************************************)
(* Properties of the date resolution                                       *)
(***************************************************************************)
Resolved == callFn = "ResolveDate" /\ callRet # NotCalled

\* the days of the catalog's month of the target, <<>> if the month is absent
TargetDays(in) ==
    LET months == ProcessDates(in.dates)
        hits == {i \in DOMAIN months : months[i].date = SubSeq(in.pageDate, 1, 7)}
    IN  IF hits = {} THEN <<>> ELSE months[CHOOSE i \in hits : TRUE].days

CatalogProcessed == last.op = "DatesThen" /\ Dates # Undefined

\* no month of the processed catalog is the month of the page date
MonthAbsent == \A i \in DOMAIN Dates.v : Dates.v[i].date # SubSeq(PageDate.v, 1, 7)

\* C14: when no catalog month equals the target's year-month, the startup
\* path resolves nothing, does not call ChangeDate and issues no energy or
\* bid fetch.
C14_AbsentMonthIssuesNoFetch ==
    (CatalogProcessed /\ MonthAbsent)
    => /\ last.outcome = "unresolved"
       /\ calls = <<>>
       /\ flagLoading = Undefined
       /\ ResolveDate(Dates.v, PageDate.v, PageType) = [latest |-> Null, foundExact |-> FALSE]

\* C14 witness: the page was opened on 2021-08 and the catalog holds 2021-07 only
C14_Witness ==
    /\ CatalogProcessed /\ MonthAbsent
    /\ PageDate = Str("2021-08")
    /\ \E i \in DOMAIN Dates.v : Dates.v[i].date = "2021-07"
    /\ last.outcome = "unresolved"

\* C15: a ChangeDate call with a date that fails ValidateDate changes nothing:
\* page date, granularity, counter, section states, success flags and cached
\* aggregates stay as they were and no fetch is issued.
C15_RejectedChangeDateChangesNothing ==
    [][ (last'.op = "ChangeDate" /\ last'.outcome = "rejected")
           => /\ ~ValidateDate(last'.arg)
              /\ UNCHANGED <<PageDate, PageType, flagLoading, skeleton, HasEnergyData,
                             HasBidData, Energy, Bids, Dates, location, overlay,
                             buttonLoading, calls, datesReq>> ]_vars

\* C15 witness: the link of the catalog month 2021-13 was clicked after a date
\* had been loaded, and ChangeDate rejected it
C15_Witness ==
    /\ last.op = "ChangeDate" /\ last.arg = "2021-13" /\ last.outcome = "rejected"
    /\ PageDate # Undefined

(***************************************************************************)
(* ValidateDate applied to strings                                         *)
(***************************************************************************)
YearParts == {"2021", "abcd", "202"}
MonthParts == {"07", "00", "13", "7", "ab", "12"}
DayParts == {"22", "00", "32", "5", "xy", "31"}
DateStrings ==
    {y \o "-" \o m : y \in YearParts, m \in MonthParts}
    \cup {y \o "-" \o m \o "-" \o d : y \in YearParts, m \in MonthParts, d \in DayParts}
    \cup {"", "2021", "2021-07-22-01", "2021-07-22T00"}

InitValidateDate ==
    /\ callFn = "ValidateDate"
    /\ callType = "none"
    /\ callArg \in {Str(x) : x \in DateStrings}
    /\ callRet = NotCalled
    /\ NavStart(Undefined)

CallValidateDate ==
    /\ callFn = "ValidateDate"
    /\ callRet = NotCalled
    /\ callRet' = Returned(Bool(ValidateDate(callArg.v)))
    /\ UNCHANGED <<callFn, callType, callArg, navVars>>

NextValidateDate == CallValidateDate

SpecValidateDate == InitValidateDate /\ [][NextValidateDate]_vars

(***************************************************************************)
(* Properties of ValidateDate                                              *)
(***************************************************************************)
DateValidated == callFn = "ValidateDate" /\ callRet # NotCalled

\* two digits that write a number of lo..hi
TwoDigitsIn(x, lo, hi) == Len(x) = 2 /\ IsDigits(x) /\ DigitsVal(x) \in lo..hi

\* YYYY-MM with month 1..12, or YYYY-MM-DD with month 1..12 and day 1..31
DateShaped(x) ==
    /\ Len(x) \in {7, 10}
    /\ IsDigits(SubSeq(x, 1, 4))
    /\ SubSeq(x, 5, 5) = "-"
    /\ TwoDigitsIn(SubSeq(x, 6, 7), 1, 12)
    /\ Len(x) = 10 => (SubSeq(x, 8, 8) = "-" /\ TwoDigitsIn(SubSeq(x, 9, 10), 1, 31))

\* C16: ValidateDate(s) is true if and only if s is YYYY-MM with month 1..12
\* or YYYY-MM-DD with month 1..12 and day 1..31.
C16_ValidateDateIffDateShaped ==
    DateValidated => (callRet.v = Bool(TRUE) <=> DateShaped(callArg.v))

(***************************************************************************)
(* The page over catalogs whose month keys are arbitrary strings: pageLoad,*)
(* the dates callback and the links CreateDates builds, while the energy   *)
(* and bid fetches are still pending                                       *)
(***************************************************************************)
MonthKeys == {y \o "-" \o m : y \in YearParts, m \in MonthParts}
LinkCatalogs ==
    {Obj(<<Prop(k, Arr(d))>>) : k \in MonthKeys, d \in {<<>>, <<Num(5)>>, <<Num(32)>>}}
AllCatalogLinks == UNION {LinkDates(ProcessDates(c)) : c \in LinkCatalogs}

InitLinks == NavStart(Undefined) /\ PureIdle

NextLinks ==
    \/ PageLoad
    \/ DatesFetchResolved
    \/ \E result \in LinkCatalogs : DatesJsonResolved(result)
    \/ \E date \in AllCatalogLinks : ClickLink(date)

SpecLinks == InitLinks /\ [][NextLinks]_vars

\* ChangeDate has just accepted the date last.arg
ChangeDateAccepted == last.op \in {"ChangeDate", "DatesThen"} /\ last.outcome = "accepted"

\* a date of year and month only
NoDayComponent(x) == Len(Split(x, "-")) = 2

\* C17: after ChangeDate accepts a date, PageDate is that date and PageType is
\* Month exactly when the date has no day component, Day exactly when it has.
C17_GranularityFollowsDayComponent ==
    ChangeDateAccepted
    => /\ PageDate = Str(last.arg)
       /\ PageType = DateTypeMonth <=> NoDayComponent(last.arg)
       /\ PageType = DateTypeDay <=> ~NoDayComponent(last.arg)

\* the export links C18 expects of download() when the counter is 0
ClaimedLinks ==
    (IF settled.energy = "ok" THEN {"api/downloads/energy/" \o PageDate.v} ELSE {})
    \cup (IF settled.bids = "ok" THEN {"api/downloads/bids/" \o PageDate.v} ELSE {})

\* C18: download() emits no link while flagLoading is not 0; when it is 0 it
\* emits the energy link of the page date exactly when the energy fetch that
\* settled last succeeded, the bids link exactly when the bid fetch that
\* settled last succeeded, and nothing else.
C18_DownloadFollowsLastFetch ==
    last.op = "download"
    => /\ flagLoading # Num(0) => last.links = <<>>
       /\ flagLoading = Num(0)
             => {last.links[i] : i \in DOMAIN last.links} = ClaimedLinks

\* C19: no token guards the responses: a valid response of any ChangeDate
\* call, also of one that is no longer the latest, replaces the cached
\* aggregate and shows the section, whatever the page date is.
C19_ResponseOverwritesWhateverPageDate ==
    /\ (last.op = "EnergyThen" /\ last.outcome = "ok")
          => /\ Energy # Undefined
             /\ Energy.carbonRate = Get(EnergyFor(last.arg), "carbonRate")
             /\ HasEnergyData = Bool(TRUE)
             /\ skeleton["energy"] = "hidden"
    /\ (last.op = "BidThen" /\ last.outcome = "ok")
          => /\ Bids = ProcessBids(BidsFor(last.arg))
             /\ HasBidData = Bool(TRUE)
             /\ skeleton["market"] = "hidden"

\* C19 witness: two ChangeDate calls for different dates, every fetch settled,
\* the page date is the second call's and the cached Energy is the first call's
C19_Witness ==
    /\ Len(calls) = 2
    /\ calls[1].date # calls[2].date
    /\ \A i \in DOMAIN calls : calls[i].energy = "done" /\ calls[i].bids = "done"
    /\ PageDate = Str(calls[2].date)
    /\ settled.energy = "ok"
    /\ Energy # Undefined
    /\ Energy.carbonRate = Get(EnergyFor(calls[1].date), "carbonRate")

EnergyHandlers == {"EnergyResponse", "EnergyThen", "EnergyCatch", "EnergyFinally"}
BidHandlers == {"BidResponse", "BidThen", "BidCatch", "BidFinally"}

\* C20: no step of an energy pipeline changes the Market section, Bids or
\* HasBidData, no step of a bid pipeline changes the Energy section, Energy or
\* HasEnergyData, and neither changes the Dates section, the catalog or the
\* page date.
C20_PipelinesKeepToTheirSection ==
    [][ /\ last'.op \in EnergyHandlers
           => /\ skeleton'["market"] = skeleton["market"]
              /\ UNCHANGED <<Bids, HasBidData>>
        /\ last'.op \in BidHandlers
           => /\ skeleton'["energy"] = skeleton["energy"]
              /\ UNCHANGED <<Energy, HasEnergyData>>
        /\ last'.op \in EnergyHandlers \cup BidHandlers
           => /\ skeleton'["dates"] = skeleton["dates"]
              /\ UNCHANGED <<Dates, PageDate, PageType>> ]_vars

\* C20 witness: the bid pipeline of a call has ended in its catch while its
\* energy fetch is still pending, and the Energy section is as pageLoad left it
C20_Witness ==
    /\ last.op = "BidCatch"
    /\ \E i \in DOMAIN calls : calls[i].bids = "finally" /\ calls[i].energy = "fetch"
    /\ Len(calls) = 1
    /\ skeleton = [energy |-> "visible", market |-> "error", dates |-> "hidden"]
    /\ HasBidData = Bool(FALSE) /\ HasEnergyData = Undefined /\ Energy = Undefined

(***************************************************************************)
(* pageLoad over query strings that carry any date string as date=         *)
(***************************************************************************)
UrlQueries == {Undefined} \cup {Str("date=" \o d) : d \in DateStrings}

InitUrl == (\E query \in UrlQueries : NavStart(query)) /\ PureIdle

NextUrl ==
    \/ PageLoad
    \/ DatesFetchResolved

SpecUrl == InitUrl /\ [][NextUrl]_vars

\* the value of the date= parameter of a query string
DateParamOf(query) == Slice(query.v, 5, Len(query.v))

\* C21: pageLoad takes the value of a date= parameter that passes ValidateDate
\* as the initial page date, with granularity Month when the value has no day
\* component and Day when it has one; it takes today's date exactly when the
\* parameter is absent or its value fails ValidateDate.
C21_UrlDateSeedsPageDate ==
    [][ (phase = "start" /\ phase' = "running")
        => IF location # Undefined /\ ValidateDate(DateParamOf(location))
           THEN /\ PageDate' = Str(DateParamOf(location))
                /\ PageType' = IF NoDayComponent(DateParamOf(location))
                               THEN DateTypeMonth ELSE DateTypeDay
           ELSE PageDate' = Today' ]_vars

(***************************************************************************)
(* Claims about pageLoad's dates callback                                  *)
(***************************************************************************)
\* the URL gave pageLoad no date that passes ValidateDate
NoValidUrlDate == urlDate = Null \/ ~ValidateDate(urlDate.v)

\* the months of the catalog that are today's month
TodayMonths == {i \in DOMAIN Dates.v : Dates.v[i].date = YearMonthOf(Today.v)}

\* the days of today's month in the catalog
TodayMonthDays == Dates.v[CHOOSE i \in TodayMonths : \A k \in TodayMonths : i <= k].days

\* the day of the highest day number among days
MaxDayOf(days) ==
    days[CHOOSE j \in DOMAIN days : \A k \in DOMAIN days : days[k].day.v <= days[j].day.v]

\* C22: when the URL supplied no valid date and the catalog holds today's
\* month with at least one day but not today, the dates callback adopts the
\* day of the highest day number of that month as the page date and calls
\* ChangeDate with it, which issues the energy and the bid fetch for it.
C22_TodayFallsBackToMaxDay ==
    ( /\ last.op = "DatesThen"
      /\ last.outcome \in {"accepted", "rejected", "unresolved"}
      /\ NoValidUrlDate
      /\ TodayMonths # {}
      /\ TodayMonthDays # <<>>
      /\ \A j \in DOMAIN TodayMonthDays : TodayMonthDays[j].date # Today.v )
    => /\ PageDate = Str(MaxDayOf(TodayMonthDays).date)
       /\ last.arg = MaxDayOf(TodayMonthDays).date
       /\ last.outcome = "accepted"
       /\ calls = <<[date |-> MaxDayOf(TodayMonthDays).date,
                     energy |-> "fetch", bids |-> "fetch"]>>

(***************************************************************************)
(* Claims about the success and the validation gate of the pipelines       *)
(***************************************************************************)
\* the then/catch chain of a pipeline whose payload passed ValidateResponse
\* has run to its end: the then callback returned, or it threw and the catch
\* handler ran
ValidEnergyHandled ==
    \/ last.op = "EnergyThen" /\ last.outcome = "ok"
    \/ last.op = "EnergyCatch" /\ last.outcome = "threw"
ValidBidsHandled ==
    \/ last.op = "BidThen" /\ last.outcome = "ok"
    \/ last.op = "BidCatch" /\ last.outcome = "threw"

\* the cached Energy is ProcessEnergy(r), whatever labels its times carry
IsEnergyOf(r) ==
    /\ Energy # Undefined
    /\ [Energy EXCEPT !.times = ProcessEnergy(r).times] = ProcessEnergy(r)

\* C23: once a decoded energy (bid) payload has passed ValidateResponse, the
\* pipeline leaves ProcessEnergy (ProcessBids) of it in the cache, the success
\* flag true and the section Hidden, also for rows whose timestamp is null.
C23_ValidPayloadEndsHidden ==
    /\ ValidEnergyHandled
       => /\ \E r \in EnergyResponses(last.arg) :
                ValidateResponse(r, "energy") /\ IsEnergyOf(r)
          /\ HasEnergyData = Bool(TRUE)
          /\ skeleton["energy"] = "hidden"
    /\ ValidBidsHandled
       => /\ \E r \in BidResponses(last.arg) :
                ValidateResponse(r, "bids") /\ Bids = ProcessBids(r)
          /\ HasBidData = Bool(TRUE)
          /\ skeleton["market"] = "hidden"

\* C24: a decoded response that fails ValidateResponse is discarded: the
\* handler leaves the cached aggregate (Energy, Bids, Dates) as it was, and a
\* handler that does change the aggregate stores the transform of a payload
\* that passes ValidateResponse.
C24_InvalidPayloadIsDiscarded ==
    [][ /\ (last'.op = "EnergyThen" /\ last'.outcome = "invalid") => UNCHANGED Energy
        /\ (last'.op = "BidThen" /\ last'.outcome = "invalid") => UNCHANGED Bids
        /\ (last'.op = "DatesThen" /\ last'.outcome = "invalid") => UNCHANGED Dates
        /\ (last'.op \in EnergyHandlers /\ Energy' # Energy)
           => \E r \in EnergyResponses(last'.arg) :
                 /\ ValidateResponse(r, "energy")
                 /\ [Energy' EXCEPT !.times = ProcessEnergy(r).times] = ProcessEnergy(r)
        /\ (last'.op \in BidHandlers /\ Bids' # Bids)
           => \E r \in BidResponses(last'.arg) :
                 ValidateResponse(r, "bids") /\ Bids' = ProcessBids(r)
        /\ Dates' # Dates
           => \E r \in DatesResponses :
                 /\ ValidateResponse(r, "dates") /\ ~ProcessDatesThrows(r)
                 /\ Dates' = Arr(ProcessDates(r)) ]_vars

\* C24 witness: the energy response of a second ChangeDate call has just
\* failed validation while the cache holds the aggregate of the first call
C24_Witness ==
    /\ last.op = "EnergyThen" /\ last.outcome = "invalid"
    /\ Len(calls) = 2
    /\ last.arg = calls[2].date
    /\ calls[1].energy = "done"
    /\ Energy # Undefined
    /\ Energy.carbonRate = Get(EnergyFor(calls[1].date), "carbonRate")

(***************************************************************************)
(* ProcessDates applied to mappings from "YYYY-MM" keys to day numbers,    *)
(* the keys in any order                                                   *)
(***************************************************************************)
DateKeys == {"2021-07", "2021-12", "2020-01"}
DayNumbers == {1, 5, 20, 31}
DaySeqs == {Arr(d) : d \in SeqsUpTo({Num(n) : n \in DayNumbers}, MaxLen)}
DatesInputs ==
    {Obj(<<>>)}
    \cup {Obj(<<Prop(k, d)>>) : k \in DateKeys, d \in DaySeqs}
    \cup {Obj(<<Prop(k[1], d1), Prop(k[2], d2)>>) :
             k \in {x \in DateKeys \X DateKeys : x[1] # x[2]}, d1 \in DaySeqs, d2 \in DaySeqs}

InitDates ==
    /\ callFn = "ProcessDates"
    /\ callType = "dates"
    /\ callArg \in DatesInputs
    /\ callRet = NotCalled
    /\ NavStart(Undefined)

CallProcessDates ==
    /\ callFn = "ProcessDates"
    /\ callRet = NotCalled
    /\ callRet' = Returned(ProcessDates(callArg))
    /\ UNCHANGED <<callFn, callType, callArg, navVars>>

NextDates == CallProcessDates

SpecDates == InitDates /\ [][NextDates]_vars

(***************************************************************************)
(* Properties of ProcessDates                                              *)
(***************************************************************************)
DatesProcessed == callFn = "ProcessDates" /\ callRet # NotCalled

\* the number a "YYYY-MM" key writes from position from to position to
KeyNumber(key, from, to) == DigitsVal(SubSeq(key, from, to))

\* a day below 100 written with two digits
TwoDigitDay(n) == CharAt(Digits, (n \div 10) + 1) \o CharAt(Digits, (n % 10) + 1)

\* C25: ProcessDates returns one ReportMonth per key of the mapping, in the
\* mapping's key order and not sorted, with date the key, year and month the
\* numbers the key writes, name the entry month-1 of the month-name table,
\* and days one ReportDay per input day in input order, whose date is the key,
\* "-" and the day padded to two digits and whose day is the day number.
C25_ProcessDatesMonthPerKey ==
    DatesProcessed
    => LET in == callArg.v
           out == callRet.v
       IN  /\ Len(out) = Len(in)
           /\ \A i \in DOMAIN in :
                 /\ out[i].date = in[i].k
                 /\ out[i].year = Num(KeyNumber(in[i].k, 1, 4))
                 /\ out[i].month = Num(KeyNumber(in[i].k, 6, 7))
                 /\ out[i].name = Str(MonthNames[KeyNumber(in[i].k, 6, 7)])
                 /\ Len(out[i].days) = Len(in[i].v.v)
                 /\ \A j \in DOMAIN in[i].v.v :
                       /\ out[i].days[j].date
                             = in[i].k \o "-" \o TwoDigitDay(in[i].v.v[j].v)
                       /\ out[i].days[j].day = in[i].v.v[j]

\* C25 witness: ProcessDates has returned for a mapping whose keys are not in
\* chronological order and whose days are not in ascending order
C25_Witness ==
    /\ DatesProcessed
    /\ callArg = Obj(<<Prop("2021-12", Arr(<<Num(20), Num(5)>>)),
                       Prop("2020-01", Arr(<<Num(1)>>))>>)
    /\ Len(callRet.v) = 2
    /\ callRet.v[1].name = Str("December")
    /\ callRet.v[1].days[2].date = "2021-12-05"
    /\ callRet.v[2].date = "2020-01"

(***************************************************************************)
(* Claims about the in-flight counter                                      *)
(***************************************************************************)
\* both pipelines of a ChangeDate call have settled
BothSettled(call) == call.energy = "done" /\ call.bids = "done"

StageRank(st) ==
    CASE st = "fetch" -> 0
      [] st = "json" -> 1
      [] st = "catch" -> 2
      [] st = "finally" -> 3
      [] st = "done" -> 4

\* C27: an accepted ChangeDate call issues one energy and one bid fetch and
\* nothing else does; no handler of a pipeline issues a further fetch or puts
\* a pipeline back to its fetch; and a section in Error leaves Error only in
\* the then callback of a pipeline a ChangeDate call started.
C27_NoRetry ==
    [][ /\ Len(calls') # Len(calls)
           => /\ ChangeDateAccepted'
              /\ calls' = Append(calls, [date |-> last'.arg,
                                         energy |-> "fetch", bids |-> "fetch"])
        /\ (ChangeDateAccepted' /\ last' # last) => Len(calls') = Len(calls) + 1
        /\ Len(calls') = Len(calls)
           => \A i \in DOMAIN calls :
                 /\ StageRank(calls'[i].energy) >= StageRank(calls[i].energy)
                 /\ StageRank(calls'[i].bids) >= StageRank(calls[i].bids)
                 /\ calls'[i].date = calls[i].date
        /\ (skeleton["energy"] = "error" /\ skeleton'["energy"] # "error")
           => /\ last'.op = "EnergyThen"
              /\ \E i \in DOMAIN calls : calls[i].date = last'.arg /\ calls[i].energy = "json"
        /\ (skeleton["market"] = "error" /\ skeleton'["market"] # "error")
           => /\ last'.op = "BidThen"
              /\ \E i \in DOMAIN calls : calls[i].date = last'.arg /\ calls[i].bids = "json"
        /\ skeleton["dates"] = "error" => skeleton'["dates"] = "error" ]_vars

\* C27 witness: the energy pipeline of the first call ended in Error, a second
\* ChangeDate call has been accepted, and the Energy section is still in
\* Error while the second call's energy fetch is pending
C27_Witness ==
    /\ Len(calls) = 2
    /\ calls[1].energy = "done"
    /\ calls[2].energy = "fetch"
    /\ settled.energy = "error"
    /\ skeleton["energy"] = "error"
    /\ HasEnergyData = Bool(FALSE)

\* C28: once a ChangeDate call has been accepted, flagLoading is a number
\* greater than or equal to 0, whatever the number of calls and the order in
\* which their fetches complete.
C28_CounterNeverNegative ==
    Len(calls) >= 1 => (flagLoading.t = "number" /\ flagLoading.v >= 0)

(***************************************************************************)
(* The page when every issued energy and bid fetch settles: the network    *)
(* answers every request and the browser runs every queued callback        *)
(***************************************************************************)
\* a step of the promise chain of some energy or bid fetch
PipelineStep ==
    \/ \E i \in DOMAIN calls : EnergyFetchResolved(i)
    \/ \E i \in DOMAIN calls : EnergyFetchRejected(i)
    \/ \E i \in DOMAIN calls : EnergyJsonRejected(i)
    \/ \E i \in DOMAIN calls : \E result \in EnergyResponses(calls[i].date) :
          EnergyJsonResolved(i, result)
    \/ \E i \in DOMAIN calls : EnergyCatch(i)
    \/ \E i \in DOMAIN calls : EnergyFinally(i)
    \/ \E i \in DOMAIN calls : BidFetchResolved(i)
    \/ \E i \in DOMAIN calls : BidFetchRejected(i)
    \/ \E i \in DOMAIN calls : BidJsonRejected(i)
    \/ \E i \in DOMAIN calls : \E result \in BidResponses(calls[i].date) :
          BidJsonResolved(i, result)
    \/ \E i \in DOMAIN calls : BidCatch(i)
    \/ \E i \in DOMAIN calls : BidFinally(i)

SpecSettling == Init /\ [][Next]_vars /\ WF_vars(PipelineStep)

\* every pipeline of every ChangeDate call has settled
AllSettled == \A i \in DOMAIN calls : BothSettled(calls[i])

\* C29: when every issued fetch settles, the page reaches and stays in a
\* state where every pipeline of the accepted ChangeDate calls has settled,
\* flagLoading is exactly 0, the loading overlay is removed and download() is
\* permitted, whether the calls overlapped or not.
C29_EventuallyIdleAtZero ==
    <>[](Len(calls) >= 1
         => (AllSettled /\ flagLoading = Num(0) /\ ~overlay /\ ~buttonLoading))

====
